---- MODULE Spec2Model ----
(***************************************************************************)
(* A model of date_scraper.py: the plausibility filter, the earliest-date *)
(* selection, the structured text parser, and the DateScraper.run loop    *)
(* with its filesystem effects.                                            *)
(*                                                                         *)
(* A datetime is a record [d, s, us]: whole days since 1970-01-01 UTC,    *)
(* seconds of the day and microseconds, which is the (days, seconds,      *)
(* microseconds) arithmetic Python's datetime and timedelta use.  All     *)
(* datetimes are timezone-aware and compared as UTC instants.             *)
(***************************************************************************)
EXTENDS Integers, Sequences, FiniteSets, TLC

VARIABLES
    now,            \* the wall clock, datetime.now().astimezone()
    phase,          \* which step of the scenario has run
    date,           \* is_date_plausible: its argument
    plausible,      \* is_date_plausible: its result
    dates,          \* min_valid_date: its argument, the evidence values
    earliest,       \* min_valid_date: its result
    text,           \* parse_date_from_text: its argument, as the regex sees it
    parsed,         \* parse_date_from_text: its result or the exception raised
    fs,             \* the filesystem: per path, whether it exists and its times
    meta,           \* per path, what the non-filesystem extractors find
    opts,           \* run(verbose, rewrite_mtime)
    run             \* one invocation of DateScraper.run

vars == <<now, phase, date, plausible, dates, earliest, text, parsed,
          fs, meta, opts, run>>

(***************************************************************************)
(* Bounds of the model.                                                    *)
(***************************************************************************)
\* The day of the wall clock, in days since the epoch (2024-10-04).
NowDay == 20000
\* How many days on each side of a boundary of the plausibility filter.
MaxDayOffset == 1
\* The most values an evidence mapping given to min_valid_date holds.
MaxDates == 3
\* The files of a batch, 1..NumFiles in the sorted order of expand_paths.
NumFiles == 2
\* How many times the program is run over the same files.
MaxPasses == 2

(***************************************************************************)
(* datetime and timedelta                                                  *)
(***************************************************************************)
SecondsPerDay == 24 * 60 * 60
MicrosPerSecond == 1000 * 1000

None == [none |-> TRUE]

DateTime(d_, s_, us_) == [d |-> d_, s |-> s_, us |-> us_]

\* datetime < datetime, both aware: the order of the instants
DtLess(a, b) ==
    \/ a.d < b.d
    \/ a.d = b.d /\ a.s < b.s
    \/ a.d = b.d /\ a.s = b.s /\ a.us < b.us

\* datetime - datetime: a timedelta normalised to 0 <= seconds < 86400 and
\* 0 <= microseconds < 1000000, the days carrying the sign
DtSub(a, b) ==
    LET du == a.us - b.us
        us_ == du % MicrosPerSecond
        st == (a.s - b.s) + ((du - us_) \div MicrosPerSecond)
        s_ == st % SecondsPerDay
    IN  [days |-> (a.d - b.d) + ((st - s_) \div SecondsPerDay),
         seconds |-> s_, microseconds |-> us_]

\* timedelta < timedelta
TdLess(x, y) ==
    \/ x.days < y.days
    \/ x.days = y.days /\ x.seconds < y.seconds
    \/ x.days = y.days /\ x.seconds = y.seconds /\ x.microseconds < y.microseconds

timedelta(days_, minutes_) ==
    [days |-> days_, seconds |-> 60 * minutes_, microseconds |-> 0]

\* datetime + timedelta(days=n)
DtAddDays(a, n) == [a EXCEPT !.d = a.d + n]

(***************************************************************************)
(* The datetime constructor                                                *)
(***************************************************************************)
ValueError == [error |-> "ValueError"]

is_leap(y) == y % 4 = 0 /\ (y % 100 # 0 \/ y % 400 = 0)

days_in_month(y, m) ==
    IF m = 2 THEN (IF is_leap(y) THEN 29 ELSE 28)
    ELSE IF m \in {4, 6, 9, 11} THEN 30 ELSE 31

\* the days before January 1 of year y, counted from 0001-01-01
days_before_year(y) ==
    LET p == y - 1 IN p * 365 + (p \div 4) - (p \div 100) + (p \div 400)

RECURSIVE days_before_month(_, _)
days_before_month(y, m) ==
    IF m = 1 THEN 0 ELSE days_before_month(y, m - 1) + days_in_month(y, m - 1)

\* date.toordinal(), and the ordinal of 1970-01-01
ymd2ord(y, m, d_) == days_before_year(y) + days_before_month(y, m) + d_
EpochOrdinal == ymd2ord(1970, 1, 1)

\* datetime(year, month, day, hour, minute, second, tzinfo=timezone.utc):
\* raises ValueError when a field is out of its range
datetime(y, m, d_, hh, mm, ss) ==
    IF /\ y \in 1..9999
       /\ m \in 1..12
       /\ d_ \in 1..days_in_month(y, m)
       /\ hh \in 0..23
       /\ mm \in 0..59
       /\ ss \in 0..59
    THEN DateTime(ymd2ord(y, m, d_) - EpochOrdinal, (hh * 60 + mm) * 60 + ss, 0)
    ELSE ValueError

(***************************************************************************)
(* is_date_plausible                                                       *)
(***************************************************************************)
\* datetime(1971, 1, 2, tzinfo=timezone.utc)
too_old == datetime(1971, 1, 2, 0, 0, 0)
\* timedelta(days=365*5)
PlausibleWindowDays == 365 * 5

too_new(now_) == DtAddDays(now_, PlausibleWindowDays)

\* A faulty variant: the lower bound itself is accepted (<= for <).
is_date_plausible_closed(d, now_) ==
    IF d = None THEN FALSE
    ELSE ~DtLess(d, too_old) /\ DtLess(d, too_new(now_))

is_date_plausible(d, now_) ==
    IF d = None THEN FALSE
    ELSE DtLess(too_old, d) /\ DtLess(d, too_new(now_))

(***************************************************************************)
(* min_valid_date                                                          *)
(***************************************************************************)
RECURSIVE Insert(_, _)
Insert(x, sorted_) ==
    IF sorted_ = <<>> THEN <<x>>
    ELSE IF DtLess(x, Head(sorted_)) THEN <<x>> \o sorted_
    ELSE <<Head(sorted_)>> \o Insert(x, Tail(sorted_))

\* sorted(list): ascending
RECURSIVE sorted(_)
sorted(list) ==
    IF list = <<>> THEN <<>>
    ELSE Insert(Head(list), sorted(Tail(list)))

\* A faulty variant: the plain minimum, no preference for precision.
min_valid_date_raw_minimum(dates_, now_) ==
    LET Valid(d) == is_date_plausible(d, now_)
        valid_dates == sorted(SelectSeq(dates_, Valid))
    IN  IF Len(valid_dates) = 0 THEN None ELSE valid_dates[1]

\* A faulty variant: a time-bearing value is preferred however far it lies
\* from the minimum (the one-day window is not tested).
min_valid_date_no_window(dates_, now_) ==
    LET Valid(d) == is_date_plausible(d, now_)
        valid_dates == sorted(SelectSeq(dates_, Valid))
        Precise(d) == d.s # 0
        precise_dates == SelectSeq(valid_dates, Precise)
        Subsecond(d) == d.us # 0
        precise_times == SelectSeq(valid_dates, Subsecond)
    IN  IF Len(valid_dates) = 0 THEN None
        ELSE IF /\ Len(precise_times) > 0
                /\ TdLess(DtSub(precise_times[1], valid_dates[1]), timedelta(0, 1))
             THEN precise_times[1]
        ELSE IF Len(precise_dates) > 0 THEN precise_dates[1]
        ELSE valid_dates[1]

\* A faulty variant: only None is filtered out, not the implausible values.
min_valid_date_unfiltered(dates_, now_) ==
    LET Valid(d) == d # None
        valid_dates == sorted(SelectSeq(dates_, Valid))
        Subsecond(d) == d.us # 0
        precise_times == SelectSeq(valid_dates, Subsecond)
        Precise(d) == d.s # 0
        precise_dates == SelectSeq(valid_dates, Precise)
    IN  IF Len(valid_dates) = 0 THEN None
        ELSE IF /\ Len(precise_times) > 0
                /\ TdLess(DtSub(precise_times[1], valid_dates[1]), timedelta(0, 1))
             THEN precise_times[1]
        ELSE IF /\ Len(precise_dates) > 0
                /\ TdLess(DtSub(precise_dates[1], valid_dates[1]), timedelta(1, 0))
             THEN precise_dates[1]
        ELSE valid_dates[1]

min_valid_date(dates_, now_) ==
    LET Valid(d) == is_date_plausible(d, now_)
        valid_dates == sorted(SelectSeq(dates_, Valid))
        \* d.microsecond != 0
        Subsecond(d) == d.us # 0
        precise_times == SelectSeq(valid_dates, Subsecond)
        \* d.hour != 0 or d.minute != 0 or d.second != 0
        Precise(d) == d.s # 0
        precise_dates == SelectSeq(valid_dates, Precise)
    IN  IF Len(valid_dates) = 0 THEN None
        ELSE IF /\ Len(precise_times) > 0
                /\ TdLess(DtSub(precise_times[1], valid_dates[1]), timedelta(0, 1))
             THEN precise_times[1]
        ELSE IF /\ Len(precise_dates) > 0
                /\ TdLess(DtSub(precise_dates[1], valid_dates[1]), timedelta(1, 0))
             THEN precise_dates[1]
        ELSE valid_dates[1]

(***************************************************************************)
(* parse_date_from_text                                                    *)
(*                                                                         *)
(* The text is given as the two regular expressions see it: `fields`, the  *)
(* integers of the structured match (the year 19xx/20xx and up to five     *)
(* fields of one or two digits; empty when the pattern does not match),    *)
(* and `fuzzy`, what the second stage ends with: no year-anchored run in   *)
(* the text, dateutil's ParserError, or the datetime dateutil returns.     *)
(***************************************************************************)
NoMatch == [nomatch |-> TRUE]
ParserError == [error |-> "ParserError"]

parse_fuzzy(text_, now_) ==
    IF text_.fuzzy = NoMatch THEN None
    ELSE IF text_.fuzzy = ParserError THEN None
    ELSE IF is_date_plausible(text_.fuzzy, now_) THEN text_.fuzzy
    ELSE None

parse_date_from_text(text_, now_) ==
    LET fields == text_.fields
    IN  IF Len(fields) = 6
        THEN datetime(fields[1], fields[2], fields[3], fields[4], fields[5], fields[6])
        ELSE IF Len(fields) = 3
        THEN datetime(fields[1], fields[2], fields[3], 0, 0, 0)
        ELSE IF Len(fields) = 2
        THEN LET next_month == datetime(fields[1], fields[2] + 1, 1, 0, 0, 0)
             IN  IF next_month = ValueError THEN ValueError
                 ELSE DtAddDays(next_month, -1)
        ELSE IF Len(fields) = 1
        THEN LET next_year == datetime(fields[1] + 1, 1, 1, 0, 0, 0)
             IN  IF next_year = ValueError THEN ValueError
                 ELSE DtAddDays(next_year, -1)
        ELSE parse_fuzzy(text_, now_)

(***************************************************************************)
(* The filesystem and the evidence extractors                              *)
(***************************************************************************)
Files == 1..NumFiles

\* datetime.timestamp(): POSIX seconds, with the microseconds
timestamp(dt) == [sec |-> dt.d * SecondsPerDay + dt.s, us |-> dt.us]

\* datetime.fromtimestamp(t).astimezone(timezone.utc)
fromtimestamp(t) == DateTime(t.sec \div SecondsPerDay, t.sec % SecondsPerDay, t.us)

\* dict.update: the later mapping wins on a shared label
update(d1, d2) ==
    [l \in DOMAIN d1 \cup DOMAIN d2 |-> IF l \in DOMAIN d2 THEN d2[l] ELSE d1[l]]

EmptyDict == [l \in {} |-> None]

\* the labels in the order the extractors insert them
LabelOrder == <<"Date in Filename", "File Accessed", "File Modified", "File Changed",
                "Xattr date", "Media Format Created", "Exif DateTime">>

\* dict.values()
values(d) ==
    LET Present(l) == l \in DOMAIN d
        labels == SelectSeq(LabelOrder, Present)
    IN  [i \in 1..Len(labels) |-> d[labels[i]]]

\* os.stat and the three datetimes made of it (a host without GetFileInfo:
\* no 'File Created'); reading a file leaves its access time alone
get_dates_from_filesystem(fs_, f) ==
    [l \in {"File Accessed", "File Modified", "File Changed"} |->
        IF l = "File Accessed" THEN fromtimestamp(fs_[f].st_atime)
        ELSE IF l = "File Modified" THEN fromtimestamp(fs_[f].st_mtime)
        ELSE fromtimestamp(fs_[f].st_ctime)]

\* the extractors in the order FileDateInfo.dates calls them
Extractors == <<"filename", "filesystem", "xattr", "media", "exif">>

\* what extractor e returns for file f when it does not raise
Extract(e, fs_, meta_, f) ==
    IF e = "filesystem" THEN get_dates_from_filesystem(fs_, f) ELSE meta_[f][e]

\* whether extractor e raises: os.stat on a missing path, or an exception the
\* extractor does not catch (`failing`)
Raises(e, fs_, f, failing) ==
    IF e = "filesystem" THEN ~fs_[f].exists ELSE e \in failing

NoDates == [raised |-> TRUE]

\* FileDateInfo.dates: the five updates in sequence; an exception raised by
\* one of them leaves the function, and nothing is cached
RECURSIVE gather(_, _, _, _, _, _)
gather(i, acc, fs_, meta_, f, failing) ==
    IF i > Len(Extractors) THEN [dates |-> acc, raised |-> "none"]
    ELSE IF Raises(Extractors[i], fs_, f, failing)
         THEN [dates |-> NoDates, raised |-> Extractors[i]]
    ELSE gather(i + 1, update(acc, Extract(Extractors[i], fs_, meta_, f)),
                fs_, meta_, f, failing)

FileDateInfo_dates(fs_, meta_, f, failing) ==
    gather(1, EmptyDict, fs_, meta_, f, failing)

\* os.utime(filename, times=(atime.timestamp(), mtime.timestamp())): the
\* system sets the change time to its clock
utime(fs_, f, atime, mtime, now_) ==
    [fs_ EXCEPT ![f] = [@ EXCEPT !.st_atime = timestamp(atime),
                                 !.st_mtime = timestamp(mtime),
                                 !.st_ctime = timestamp(now_)]]

\* set_filesystem_times(path, atime=..., mtime=...): `if mtime:` skips None
set_filesystem_times(fs_, f, atime, mtime, now_) ==
    IF mtime # None
    THEN [fs |-> utime(fs_, f, atime, mtime, now_), utime_called |-> TRUE]
    ELSE [fs |-> fs_, utime_called |-> FALSE]

(***************************************************************************)
(* The inputs                                                              *)
(***************************************************************************)
\* a day well inside the plausible range
BaseDay == NowDay - 100

Epoch == DateTime(0, 0, 0)
Noon == 12 * 60 * 60
LastSecond == SecondsPerDay - 1
LastMicro == MicrosPerSecond - 1

\* the clocks is_date_plausible is tried under
Clocks == {DateTime(NowDay, s_, us_) : s_ \in {0, Noon}, us_ \in {0, 250000}}

\* the clock of the other scenarios
RunClock == DateTime(NowDay, Noon, 0)

\* the days around the boundaries of the filter: the epoch, the day after it,
\* too_old, today, today + 5*365 days, today + 6*365 days
BoundaryDays(now_) ==
    UNION {(b - MaxDayOffset)..(b + MaxDayOffset) :
             b \in {0, 1, too_old.d, now_.d,
                    now_.d + PlausibleWindowDays, now_.d + 365 * 6}}

PlausibleInputs(now_) ==
    {None} \cup
    {DateTime(d_, s_, us_) : d_ \in BoundaryDays(now_),
                             s_ \in {0, now_.s, LastSecond},
                             us_ \in {0, now_.us, LastMicro}}

\* the values of an evidence mapping: absent, too old, too new, and plausible
\* datetimes on two days, with and without seconds and microseconds
SelectDomain ==
    {None, Epoch, DateTime(NowDay + PlausibleWindowDays, Noon, 0)} \cup
    {DateTime(BaseDay + k, s_, us_) : k \in 0..1, s_ \in {0, 59, 60}, us_ \in {0, 500000}}

SeqsUpTo(S, n) == UNION {[1..k -> S] : k \in 0..n}

\* the texts: every prefix of year, month, day, hour, minute, second, with
\* fields in and out of their ranges; the second stage is reached with no
\* structured match or with four or five fields
FieldDomains ==
    <<{2024, 2025}, 0..13, {0, 1, 28, 29, 30, 31, 32}, {0, 23, 24}, {0, 59, 60}, {0, 59, 60}>>

RECURSIVE FieldSeqs(_)
FieldSeqs(n) ==
    IF n = 0 THEN {<<>>}
    ELSE {Append(p, x) : p \in FieldSeqs(n - 1), x \in FieldDomains[n]}

FuzzyOutcomes == {ParserError, DateTime(BaseDay, 0, 0), Epoch}

TextInputs ==
    {[fields |-> <<>>, fuzzy |-> z] : z \in FuzzyOutcomes \cup {NoMatch}} \cup
    {[fields |-> fl, fuzzy |-> z] : fl \in FieldSeqs(4) \cup FieldSeqs(5), z \in FuzzyOutcomes} \cup
    {[fields |-> fl, fuzzy |-> ParserError] :
        fl \in FieldSeqs(1) \cup FieldSeqs(2) \cup FieldSeqs(3) \cup FieldSeqs(6)}

\* the datetimes of a file's evidence
Midnight == DateTime(BaseDay, 0, 0)
Morning == DateTime(BaseDay, 5 * 60 * 60, 0)
MorningPrecise == DateTime(BaseDay, 5 * 60 * 60 + 30, 500000)
Recent == DateTime(NowDay - 1, 60 * 60, 0)

Dict(label, value) == [l \in {label} |-> value]

FsStates ==
    {[exists |-> TRUE, st_atime |-> timestamp(ac), st_mtime |-> timestamp(m),
      st_ctime |-> timestamp(ac)] : m \in {Midnight, Recent, Epoch}, ac \in {Recent, Epoch}}

MetaStates ==
    [filename : {EmptyDict, Dict("Date in Filename", Morning)},
     xattr : {EmptyDict},
     media : {EmptyDict, Dict("Media Format Created", MorningPrecise)},
     exif : {EmptyDict, Dict("Exif DateTime", None)}]

\* the extractors that may raise an exception they do not catch
MayFail == {"filename", "xattr", "media", "exif"}

Unset == [unset |-> TRUE]

NewRun(pass_, first_) ==
    [pass |-> pass_, idx |-> 1, status |-> "running", n_written |-> 0,
     dates |-> [f \in Files |-> Unset],
     earliest |-> [f \in Files |-> Unset],
     raised |-> [f \in Files |-> "none"],
     failing |-> [f \in Files |-> {}],
     utimes |-> {}, reported |-> {}, processed |-> {}, summary |-> FALSE,
     first |-> first_]

NoRun == [status |-> "idle"]
NoFirst == [unset |-> TRUE]

(***************************************************************************)
(* is_date_plausible applied to one datetime                               *)
(***************************************************************************)
InitPlausible ==
    /\ now \in Clocks
    /\ date \in PlausibleInputs(now)
    /\ phase = "input"
    /\ plausible = FALSE
    /\ dates = <<>> /\ earliest = None
    /\ text = [fields |-> <<>>, fuzzy |-> NoMatch] /\ parsed = None
    /\ fs = <<>> /\ meta = <<>> /\ opts = <<>> /\ run = NoRun

CheckPlausible ==
    /\ phase = "input"
    /\ plausible' = is_date_plausible(date, now)
    /\ phase' = "done"
    /\ UNCHANGED <<now, date, dates, earliest, text, parsed, fs, meta, opts, run>>

SpecPlausible == InitPlausible /\ [][CheckPlausible]_vars

(***************************************************************************)
(* min_valid_date applied to the values of one evidence mapping            *)
(***************************************************************************)
InitSelect ==
    /\ now = RunClock
    /\ dates \in SeqsUpTo(SelectDomain, MaxDates)
    /\ phase = "input"
    /\ earliest = None
    /\ date = None /\ plausible = FALSE
    /\ text = [fields |-> <<>>, fuzzy |-> NoMatch] /\ parsed = None
    /\ fs = <<>> /\ meta = <<>> /\ opts = <<>> /\ run = NoRun

Select ==
    /\ phase = "input"
    /\ earliest' = min_valid_date(dates, now)
    /\ phase' = "done"
    /\ UNCHANGED <<now, date, plausible, dates, text, parsed, fs, meta, opts, run>>

SpecSelect == InitSelect /\ [][Select]_vars

(***************************************************************************)
(* parse_date_from_text applied to one text                                *)
(***************************************************************************)
InitParse ==
    /\ now = RunClock
    /\ text \in TextInputs
    /\ phase = "input"
    /\ parsed = None
    /\ date = None /\ plausible = FALSE
    /\ dates = <<>> /\ earliest = None
    /\ fs = <<>> /\ meta = <<>> /\ opts = <<>> /\ run = NoRun

Parse ==
    /\ phase = "input"
    /\ parsed' = parse_date_from_text(text, now)
    /\ phase' = "done"
    /\ UNCHANGED <<now, date, plausible, dates, earliest, text, fs, meta, opts, run>>

SpecParse == InitParse /\ [][Parse]_vars

(***************************************************************************)
(* DateScraper.run over a batch of files, run again over the same files    *)
(***************************************************************************)
Init ==
    /\ now = RunClock
    /\ fs \in [Files -> FsStates]
    /\ meta \in [Files -> MetaStates]
    /\ opts \in [verbose : BOOLEAN, rewrite_mtime : BOOLEAN]
    /\ run = NewRun(1, NoFirst)
    /\ phase = "run"
    /\ date = None /\ plausible = FALSE
    /\ dates = <<>> /\ earliest = None
    /\ text = [fields |-> <<>>, fuzzy |-> NoMatch] /\ parsed = None

\* the body of the loop of run() for file_info = files[idx]; an exception
\* raised while the evidence is gathered (by at most one of the extractors
\* in `failing`, or by os.stat) leaves run()
ProcessFile ==
    /\ run.status = "running"
    /\ run.idx <= NumFiles
    /\ \E failing \in {{}} \cup {{e} : e \in MayFail} :
        LET f == run.idx
            g == FileDateInfo_dates(fs, meta, f, failing)
        IN  IF ~(opts.verbose \/ opts.rewrite_mtime)
            THEN /\ run' = [run EXCEPT !.idx = @ + 1, !.processed = @ \cup {f}]
                 /\ fs' = fs
            ELSE IF g.raised # "none"
            THEN /\ run' = [run EXCEPT !.status = "crashed", !.raised[f] = g.raised,
                                       !.failing[f] = failing, !.dates[f] = NoDates]
                 /\ fs' = fs
            ELSE LET d == g.dates
                     e == min_valid_date(values(d), now)
                     prev_mtime == d["File Modified"]
                     changed == opts.rewrite_mtime /\ prev_mtime # e
                     set == set_filesystem_times(fs, f, d["File Accessed"], e, now)
                 IN  /\ fs' = IF changed THEN set.fs ELSE fs
                     /\ run' = [run EXCEPT
                            !.idx = @ + 1,
                            !.dates[f] = d,
                            !.earliest[f] = e,
                            !.utimes = IF changed /\ set.utime_called THEN @ \cup {f} ELSE @,
                            !.reported = IF changed THEN @ \cup {f} ELSE @,
                            !.n_written = IF changed THEN @ + 1 ELSE @,
                            !.processed = @ \cup {f}]
    /\ UNCHANGED <<now, phase, date, plausible, dates, earliest, text, parsed, meta, opts>>

\* the end of run(): the summary line
Finish ==
    /\ run.status = "running"
    /\ run.idx > NumFiles
    /\ run' = [run EXCEPT !.status = "done",
                          !.summary = opts.verbose /\ run.n_written > 0]
    /\ UNCHANGED <<now, phase, date, plausible, dates, earliest, text, parsed, fs, meta, opts>>

\* the program is started again on the same paths
StartRun ==
    /\ run.status \in {"done", "crashed"}
    /\ run.pass < MaxPasses
    /\ run' = NewRun(run.pass + 1,
                     [earliest |-> run.earliest, utimes |-> run.utimes,
                      processed |-> run.processed, status |-> run.status])
    /\ UNCHANGED <<now, phase, date, plausible, dates, earliest, text, parsed, fs, meta, opts>>

\* a path listed by expand_paths is deleted before its file is read
RemoveFile ==
    /\ run.status = "running"
    /\ \E f \in Files :
        /\ f >= run.idx
        /\ fs[f].exists
        /\ fs' = [fs EXCEPT ![f].exists = FALSE]
    /\ UNCHANGED <<now, phase, date, plausible, dates, earliest, text, parsed, meta, opts, run>>

Next == ProcessFile \/ Finish \/ StartRun \/ RemoveFile

Spec == Init /\ [][Next]_vars


(***************************************************************************)
(* Properties                                                              *)
(***************************************************************************)
\* the order of instants, written out on seconds and microseconds
SecondsBetween(a, b) == (b.d - a.d) * SecondsPerDay + (b.s - a.s)

NotAfter(a, b) ==
    \/ SecondsBetween(a, b) > 0
    \/ SecondsBetween(a, b) = 0 /\ a.us <= b.us

\* t lies at or after m and at most `secs` seconds after it
Within(m, t, secs) ==
    /\ NotAfter(m, t)
    /\ \/ SecondsBetween(m, t) < secs
       \/ SecondsBetween(m, t) = secs /\ t.us <= m.us

Earliest(S) == CHOOSE m \in S : \A t \in S : NotAfter(m, t)

\* the plausible values of the evidence given to min_valid_date
PlausibleValues == {dates[i] : i \in {j \in 1..Len(dates) : is_date_plausible(dates[j], now)}}

\* the plausible values with a sub-second part within one minute of the minimum
SubsecondNear ==
    {t \in PlausibleValues : t.us # 0 /\ Within(Earliest(PlausibleValues), t, 60)}

\* the plausible values with a time of day within one day of the minimum
TimedNear ==
    {t \in PlausibleValues :
        (t.s # 0 \/ t.us # 0) /\ Within(Earliest(PlausibleValues), t, SecondsPerDay)}

IsMidnight(t) == t.s = 0 /\ t.us = 0

\* the sub-second override of the selection applies
SubsecondOverride ==
    /\ PlausibleValues # {}
    /\ Earliest(PlausibleValues).us = 0
    /\ SubsecondNear # {}

\* C1: min_valid_date returns None exactly when no value of the mapping is
\* plausible; otherwise it returns one of the mapping's plausible values.
C1_SelectsPlausibleOrAbsent ==
    phase = "done" =>
        /\ (earliest = None) <=> (PlausibleValues = {})
        /\ earliest # None => earliest \in PlausibleValues

C1_Witness ==
    /\ phase = "done"
    /\ earliest # None
    /\ \E i \in 1..Len(dates) : dates[i] = None
    /\ \E i \in 1..Len(dates) : dates[i] = Epoch

\* C2: when the minimum plausible value has no sub-second part and a plausible
\* value with a sub-second part lies within one minute of it, the earliest
\* such value is returned.
C2_PrefersSubsecond ==
    (phase = "done" /\ SubsecondOverride) => earliest = Earliest(SubsecondNear)

C2_Witness ==
    /\ phase = "done"
    /\ SubsecondOverride
    /\ Cardinality(SubsecondNear) >= 2
    /\ earliest # Earliest(PlausibleValues)

\* C3: when the sub-second override does not apply, a midnight minimum gives
\* way to the earliest plausible value with a time of day within one day of
\* it; in every remaining case the minimum itself is returned.
C3_PrefersTimeOfDay ==
    (phase = "done" /\ PlausibleValues # {} /\ ~SubsecondOverride) =>
        IF IsMidnight(Earliest(PlausibleValues)) /\ TimedNear # {}
        THEN earliest = Earliest(TimedNear)
        ELSE earliest = Earliest(PlausibleValues)

C3_Witness ==
    /\ phase = "done"
    /\ PlausibleValues # {}
    /\ ~SubsecondOverride
    /\ IsMidnight(Earliest(PlausibleValues))
    /\ TimedNear # {}
    /\ earliest # Earliest(PlausibleValues)

\* C6, as amended: is_date_plausible(t) is true exactly when t is present,
\* strictly after 1971-01-02T00:00:00Z (the epoch plus 366 days) and strictly
\* before the wall clock plus 5 * 365 days.
C6_PlausibleWindow ==
    phase = "done" =>
        (plausible <=>
            /\ date # None
            /\ ~NotAfter(date, DateTime(365 + 1, 0, 0))
            /\ ~NotAfter(DateTime(now.d + 5 * 365, now.s, now.us), date))

\* a datetime after the epoch plus one day is rejected
C6_Witness ==
    /\ phase = "done"
    /\ date # None
    /\ ~NotAfter(date, DateTime(1, 0, 0))
    /\ NotAfter(date, DateTime(365 + 1, 0, 0))
    /\ ~plausible

\* C6, as stated: the lower bound is the epoch plus one day.
C6_LowerBoundEpochPlusOneDay ==
    phase = "done" =>
        (plausible <=>
            /\ date # None
            /\ ~NotAfter(date, DateTime(1, 0, 0))
            /\ ~NotAfter(DateTime(now.d + 5 * 365, now.s, now.us), date))

\* the structured fields name a calendar date and a time of day
ValidDate(y, m, d_) == m \in 1..12 /\ d_ \in 1..days_in_month(y, m)
ValidTime(hh, mm, ss) == hh \in 0..23 /\ mm \in 0..59 /\ ss \in 0..59
DayNumber(y, m, d_) == ymd2ord(y, m, d_) - EpochOrdinal

\* C7: a structured match of 3 fields gives that date at 00:00:00, of 2
\* fields the last day of that month, for every month 1 through 12, of 1
\* field December 31 of that year, of 6 fields the full date and time.
C7_FieldCountDecides ==
    LET fl == text.fields
    IN  phase = "done" =>
        /\ (Len(fl) = 3 /\ ValidDate(fl[1], fl[2], fl[3])) =>
                parsed = DateTime(DayNumber(fl[1], fl[2], fl[3]), 0, 0)
        /\ (Len(fl) = 2 /\ fl[2] \in 1..12) =>
                parsed = DateTime(DayNumber(fl[1], fl[2], days_in_month(fl[1], fl[2])), 0, 0)
        /\ Len(fl) = 1 =>
                parsed = DateTime(DayNumber(fl[1], 12, 31), 0, 0)
        /\ (Len(fl) = 6 /\ ValidDate(fl[1], fl[2], fl[3]) /\ ValidTime(fl[4], fl[5], fl[6])) =>
                parsed = DateTime(DayNumber(fl[1], fl[2], fl[3]),
                                  (fl[4] * 60 + fl[5]) * 60 + fl[6], 0)

\* C10: parse_date_from_text never raises: it returns a datetime or None,
\* also for fields that name no calendar date or time of day.  The year-month
\* texts with a month 1 through 12 are the matter of C7 and left out here.
C10_ParserNeverRaises ==
    (phase = "done" /\ ~(Len(text.fields) = 2 /\ text.fields[2] \in 1..12))
        => parsed # ValueError

\* C4: after a pass has set a file's modification time to the selected date,
\* the next pass over the file writes nothing and selects the same date.
C4_RewriteIdempotent ==
    \A f \in Files :
        (/\ run.pass > 1 /\ run.first.status = "done" /\ run.status = "done"
         /\ opts.rewrite_mtime /\ f \in run.first.utimes) =>
            /\ f \notin run.utimes
            /\ run.earliest[f] = run.first.earliest[f]

\* C5: a file with no plausible evidence is not written, is not reported as
\* changed and is not counted among the updated files.
C5_AbsentDateUnchanged ==
    \A f \in Files :
        (opts.rewrite_mtime /\ f \in run.processed /\ run.earliest[f] = None) =>
            /\ f \notin run.utimes
            /\ f \notin run.reported
            /\ run.n_written <= Cardinality(run.processed \ {f})

\* C8: when an extractor raises for a file, the evidence of every extractor
\* that does not raise is still in the file's merged mapping.
C8_ExtractorsIsolated ==
    \A f \in Files :
        run.raised[f] # "none" =>
            \A i \in 1..Len(Extractors) :
                ~Raises(Extractors[i], fs, f, run.failing[f]) =>
                    /\ run.dates[f] # NoDates
                    /\ \A l \in DOMAIN Extract(Extractors[i], fs, meta, f) :
                            l \in DOMAIN run.dates[f]

\* C9: when a path of the batch is missing as its evidence is gathered, every
\* other file of the batch is still processed to completion.
C9_MissingFileIsolated ==
    (/\ run.status \in {"done", "crashed"}
     /\ \A f \in Files : run.raised[f] \in {"none", "filesystem"})
        => \A f \in Files : fs[f].exists => f \in run.processed

====
